---- MODULE Spec2Model ----
(***************************************************************************)
(* A model of torch/ao/ns/fx/n_shadows_utils.py: the subgraph              *)
(* deduplicator (_get_dedup_subgraphs), the subgraph extractor             *)
(* (create_submodule_from_subgraph), the logger insertion                  *)
(* (_add_logger_to_subgraph_wrapper) and the results aggregation           *)
(* (group_results_by_subgraph, print_n_shadows_summary).                   *)
(***************************************************************************)
EXTENDS Integers, Sequences, FiniteSets, TLC

VARIABLES
    matches,      \* dedup: the matches mapping, in insertion order; the key of
                  \*        an entry is its position, the value is cur_match[1]
    dedup_runs,   \* dedup: one record per finished call of _get_dedup_subgraphs
    host,         \* extract: the host chain, first_node and last_node
    pc,           \* extract: "loop" inside the while loop of
                  \*          create_submodule_from_subgraph, then "returned"
                  \*          or "raised"; "idle" when nothing is extracted
    walk,         \* extract: the locals of create_submodule_from_subgraph
    gm,           \* extract: the unit (GraphModule) being built: its graph's
                  \*          nodes in order, its attributes, its loggers
    logger_calls, \* extract: one record per call of
                  \*          _add_logger_to_subgraph_wrapper on the unit
    results,      \* group: results['model']['node_output'], in insertion
                  \*        order: entries [key, val]
    grouped,      \* group: the outcome of group_results_by_subgraph(results)
    comparison,   \* print: results_comparison, in insertion order
    summary       \* print: the outcome of print_n_shadows_summary(comparison)

dedupVars == <<matches, dedup_runs>>

extractVars == <<host, pc, walk, gm, logger_calls>>

groupVars == <<results, grouped>>

printVars == <<comparison, summary>>

vars == <<matches, dedup_runs, host, pc, walk, gm, logger_calls,
          results, grouped, comparison, summary>>

(***************************************************************************)
(* Generic helpers                                                         *)
(***************************************************************************)
\* list.reverse() / reversed(): the same elements, last first
Reverse(s) == [i \in 1..Len(s) |-> s[Len(s) + 1 - i]]

\* x in list
InSeq(x, s) == \E i \in 1..Len(s) : s[i] = x

\* the elements of a sequence, as a set
SeqRange(s) == {s[i] : i \in 1..Len(s)}

(***************************************************************************)
(* The host graph the matcher ran on: x -> conv -> bn -> relu -> output.   *)
(* Node 0 is the placeholder x, nodes 1..3 are the operations the matcher  *)
(* reports, node 4 is the output node.  HostGraph[n] is n.args.            *)
(***************************************************************************)
MatchableNodes == {1, 2, 3}

HostGraph == <<  <<0>>, <<1>>, <<2>>, <<3>>  >>

\* node.args
NodeArgs(g, n) == IF n \in DOMAIN g THEN g[n] ELSE <<>>

\* list(node.users): the nodes that have n among their arguments, in the order
\* they were created
RECURSIVE UsersFrom(_, _, _)
UsersFrom(g, n, m) ==
    IF m > Len(g) THEN <<>>
    ELSE (IF InSeq(n, g[m]) THEN <<m>> ELSE <<>>) \o UsersFrom(g, n, m + 1)

NodeUsers(g, n) == UsersFrom(g, n, 1)

(***************************************************************************)
(* Match shapes: cur_match[1] is a list whose elements are Nodes or        *)
(* 2-tuples of Nodes.                                                      *)
(***************************************************************************)
\* an element is the sequence of its nodes: <<n>> is the Node n, <<a, b>> the
\* tuple (a, b)
NodeElem(n) == <<n>>
TupleElem(x, y) == <<x, y>>

\* isinstance(e, Node)
IsNode(e) == Len(e) = 1

SingleShapes == { <<NodeElem(n)>> : n \in MatchableNodes }

\* [x, y]: any two nodes, the same node twice included
PairShapes == { <<NodeElem(x), NodeElem(y)>> : x, y \in MatchableNodes }

\* any three nodes, a node named twice or three times included
Triples == MatchableNodes \X MatchableNodes \X MatchableNodes

\* ((a, b), c) and (c, (a, b))
NestedShapes ==
    { <<TupleElem(t[1], t[2]), NodeElem(t[3])>> : t \in Triples } \cup
    { <<NodeElem(t[3]), TupleElem(t[1], t[2])>> : t \in Triples }

MatchShapes == SingleShapes \cup PairShapes \cup NestedShapes

\* the largest number of entries of the matches mapping
MaxMatches == 3

\* the largest number of nodes the entries of the matches mapping name, all
\* entries together
MaxMatchedNodes == 5


(***************************************************************************)
(* _get_dedup_subgraphs                                                    *)
(***************************************************************************)
\* lines 129-132 / 138-141: one node against seen_nodes
\* (mutant: a node already seen does not set was_seen)
SeeNodeNeverFlags(st, n) ==
    [seen |-> st.seen \cup {n}, was_seen |-> st.was_seen]

SeeNode(st, n) ==
    [seen |-> st.seen \cup {n}, was_seen |-> st.was_seen \/ n \in st.seen]

\* the nodes of one element of cur_match[1], in iteration order
ElemNodes(e) == e

\* the nodes of cur_match[1] in the order lines 112-141 visit them
RECURSIVE FlatNodes(_)
FlatNodes(shape) ==
    IF shape = <<>> THEN <<>>
    ELSE ElemNodes(Head(shape)) \o FlatNodes(Tail(shape))

\* lines 111-141: the scan of one entry
RECURSIVE ScanNodes(_, _)
ScanNodes(ns, st) ==
    IF ns = <<>> THEN st
    ELSE ScanNodes(Tail(ns), SeeNode(st, Head(ns)))

ScanEntry(shape, seen) ==
    ScanNodes(FlatNodes(shape), [seen |-> seen, was_seen |-> FALSE])

\* lines 162-170: one iteration of _order_nodes' loop; 0 stands for None
OrderStep(g, nodes, st, n) ==
    IF st.err # "none" THEN st
    ELSE IF Len(NodeArgs(g, n)) = 0 \/ Len(NodeUsers(g, n)) = 0
         THEN [st EXCEPT !.err = "IndexError"]
    ELSE LET prev_n == NodeArgs(g, n)[1]
             next_n == NodeUsers(g, n)[1]
         IN  IF ~InSeq(prev_n, nodes) THEN [st EXCEPT !.first = n]
             ELSE IF ~InSeq(next_n, nodes) THEN [st EXCEPT !.last = n]
             ELSE [st EXCEPT !.mid = n]

\* lines 157-175
OrderNodes(g, node_a, node_b, node_c) ==
    LET nodes == <<node_a, node_b, node_c>>
        s0 == [first |-> 0, mid |-> 0, last |-> 0, err |-> "none"]
        s1 == OrderStep(g, nodes, s0, node_a)
        s2 == OrderStep(g, nodes, s1, node_b)
        s3 == OrderStep(g, nodes, s2, node_c)
    IN  IF s3.err # "none" THEN [err |-> s3.err, nodes |-> <<>>]
        ELSE IF s3.first = 0 \/ s3.mid = 0 \/ s3.last = 0
             THEN [err |-> "AssertionError", nodes |-> <<>>]
        ELSE IF NodeArgs(g, s3.mid)[1] # s3.first
             THEN [err |-> "AssertionError", nodes |-> <<>>]
        ELSE IF NodeArgs(g, s3.last)[1] # s3.mid
             THEN [err |-> "AssertionError", nodes |-> <<>>]
        ELSE [err |-> "none", nodes |-> <<s3.last, s3.mid, s3.first>>]

\* lines 147-189: list_of_nodes for an accepted entry.  alias says that
\* list_of_nodes is the list object cur_match[1] itself, not a new list.
ListOfNodes(g, shape) ==
    IF Len(shape) = 1
    THEN [err |-> "none", alias |-> TRUE, nodes |-> FlatNodes(shape)]
    ELSE IF Len(shape) # 2
    THEN [err |-> "AssertionError", alias |-> FALSE, nodes |-> <<>>]
    ELSE IF IsNode(shape[1]) /\ IsNode(shape[2])
    THEN [err |-> "none", alias |-> TRUE, nodes |-> FlatNodes(shape)]
    ELSE IF ~IsNode(shape[1])
    THEN LET r == OrderNodes(g, shape[1][1], shape[1][2], shape[2][1])
         IN  [err |-> r.err, alias |-> FALSE, nodes |-> r.nodes]
    ELSE LET r == OrderNodes(g, shape[2][1], shape[2][2], shape[1][1])
         IN  [err |-> r.err, alias |-> FALSE, nodes |-> r.nodes]

\* (mutant: the nodes of a skipped entry are not added to seen_nodes)
DedupEntrySeenOnAccept(g, st, i) ==
    IF st.err # "none" THEN st
    ELSE
    LET cur == st.heap[i]
        sc == ScanEntry(cur, st.seen)
    IN  IF sc.was_seen
        THEN [st EXCEPT !.skipped = @ \cup {i}]
        ELSE LET l == ListOfNodes(g, cur)
             IN  IF l.err # "none"
                 THEN [st EXCEPT !.seen = sc.seen, !.err = l.err]
                 ELSE [st EXCEPT
                         !.seen = sc.seen,
                         !.heap = IF l.alias
                                  THEN [@ EXCEPT ![i] = Reverse(cur)]
                                  ELSE @,
                         !.out = Append(@, [name |-> i,
                                            nodes |-> Reverse(l.nodes)])]

\* lines 110-194: the body of the loop for the entry at position i.
\* st.heap is the matches mapping as it stands (list.reverse() on an aliased
\* list changes it), st.out is subgraphs_dedup in insertion order, st.skipped
\* the keys of the entries that took the continue of line 144.
DedupEntry(g, st, i) ==
    IF st.err # "none" THEN st
    ELSE
    LET cur == st.heap[i]
        sc == ScanEntry(cur, st.seen)
    IN  IF sc.was_seen
        THEN [st EXCEPT !.seen = sc.seen, !.skipped = @ \cup {i}]
        ELSE LET l == ListOfNodes(g, cur)
             IN  IF l.err # "none"
                 THEN [st EXCEPT !.seen = sc.seen, !.err = l.err]
                 ELSE [st EXCEPT
                         !.seen = sc.seen,
                         !.heap = IF l.alias
                                  THEN [@ EXCEPT ![i] = Reverse(cur)]
                                  ELSE @,
                         !.out = Append(@, [name |-> i,
                                            nodes |-> Reverse(l.nodes)])]

\* lines 106-110: the entries are visited last-inserted first
RECURSIVE DedupFrom(_, _, _)
DedupFrom(g, st, i) ==
    IF i = 0 THEN st
    ELSE DedupFrom(g, DedupEntry(g, st, i), i - 1)

\* lines 96-196
GetDedupSubgraphs(g, ms) ==
    DedupFrom(g,
              [seen |-> {}, out |-> <<>>, heap |-> ms, skipped |-> {},
               err |-> "none"],
              Len(ms))

(***************************************************************************)
(* Strings that the code formats or parses are sequences of characters.    *)
(***************************************************************************)
DigitChars == <<"0", "1", "2", "3", "4", "5", "6", "7", "8", "9">>

\* str(n) for an integer n
RECURSIVE NatToStr(_)
NatToStr(n) ==
    IF n < 10 THEN <<DigitChars[n + 1]>>
    ELSE NatToStr(n \div 10) \o <<DigitChars[(n % 10) + 1]>>

IntToStr(n) == IF n < 0 THEN <<"-">> \o NatToStr(-n) ELSE NatToStr(n)

(***************************************************************************)
(* create_submodule_from_subgraph: the host graph.                         *)
(*                                                                         *)
(* An argument of a host node is a Node (named n), a literal (float, int,  *)
(* dtype), a torch.nn.Parameter, a value of another type, or a list/tuple  *)
(* of such.  In the unit a Node argument refers to a unit node by its id   *)
(* (ref).                                                                  *)
(***************************************************************************)
NodeArg(name) == [k |-> "node", n |-> name, ref |-> 0, items |-> <<>>]
LitArg == [k |-> "lit", n |-> <<>>, ref |-> 0, items |-> <<>>]
ParamArg == [k |-> "param", n |-> <<>>, ref |-> 0, items |-> <<>>]
OtherArg == [k |-> "other", n |-> <<>>, ref |-> 0, items |-> <<>>]
ListArg(xs) == [k |-> "list", n |-> <<>>, ref |-> 0, items |-> xs]
UnitRef(id) == [k |-> "node", n |-> <<>>, ref |-> id, items |-> <<>>]

Kw(key, val) == [key |-> key, val |-> val]

X == NodeArg(<<"x">>)
Y == NodeArg(<<"y">>)

\* BINARY_FUNCTIONS, lines 28-35
BINARY_FUNCTIONS == {"torch.add", "torch.Tensor.add", "operator.add",
                     "torch.mul", "torch.Tensor.mul", "operator.mul"}

HostNode(op, target, args, kwargs) ==
    [op |-> op, target |-> target, args |-> args, kwargs |-> kwargs]

\* what the chain's first node may be
FirstNodes == {
    \* linear(x)
    HostNode("call_module", "linear1", <<X>>, <<>>),
    \* y = x + x
    HostNode("call_function", "operator.add", <<X, X>>, <<>>),
    \* f(x, 1.0, k=y)
    HostNode("call_function", "F.relu", <<X, LitArg>>, <<Kw("k", Y)>>),
    \* t.cat([x, 1.0, y], k=[x, y])
    HostNode("call_method", "cat", <<ListArg(<<X, LitArg, Y>>)>>,
             <<Kw("k", ListArg(<<X, Y>>))>>),
    \* f(x, k=[1.0]): a keyword list that holds a literal
    HostNode("call_function", "F.relu", <<X>>, <<Kw("k", ListArg(<<LitArg>>))>>),
    \* f(1.0, k=1.0): no Node argument at all
    HostNode("call_function", "F.relu", <<LitArg>>, <<Kw("k", LitArg)>>),
    \* a get_attr node
    HostNode("get_attr", "weight", <<>>, <<>>) }

\* what a node after the first may be while the walk goes on ...
PassableNodes == {
    HostNode("call_module", "relu1", <<X>>, <<>>),
    HostNode("call_function", "F.hardtanh", <<X, LitArg>>, <<Kw("j", LitArg)>>) }

\* ... and what the node the walk ends at may also be
EndNodes == PassableNodes \cup {
    HostNode("call_function", "torch.add", <<X, LitArg>>, <<>>),
    HostNode("call_method", "mul_", <<X, ParamArg>>, <<>>),
    HostNode("call_function", "F.linear", <<X, OtherArg>>, <<>>),
    HostNode("output", "output", <<X>>, <<>>) }

\* the largest number of nodes of the host chain
MaxHostNodes == 3

\* iteration_limit, line 338
iteration_limit == 100

(***************************************************************************)
(* create_submodule_from_subgraph: the first node (lines 342-405)          *)
(***************************************************************************)
\* lines 354-356: the first counter for which name_counter is not in seen_names
RECURSIVE FreeCounter(_, _, _)
FreeCounter(name, seen_names, counter) ==
    IF (name \o <<"_">> \o IntToStr(counter)) \in seen_names
    THEN FreeCounter(name, seen_names, counter + 1)
    ELSE counter

UnitNode(id, op, name, target, args, kwargs) ==
    [id |-> id, op |-> op, name |-> name, target |-> target,
     args |-> args, kwargs |-> kwargs]

\* (mutant: a source node that already has a placeholder gets no second one)
AddPlaceholderOncePerSource(st, name) ==
    IF name \in DOMAIN st.old_name_to_new_node
    THEN [st EXCEPT !.p = st.old_name_to_new_node[name]]
    ELSE
    LET counter == FreeCounter(name, st.seen_names, 0)
        cur_name == name \o <<"_">> \o IntToStr(counter)
        id == Len(st.g) + 1
    IN  [st EXCEPT
           !.seen_names = @ \cup {cur_name},
           !.g = Append(@, UnitNode(id, "placeholder", cur_name, cur_name,
                                    <<>>, <<>>)),
           !.old_name_to_new_node =
               [x \in DOMAIN @ \cup {name} |-> IF x = name THEN id ELSE @[x]],
           !.p = id]

\* lines 351-361: _add_placeholder; st.p is the placeholder returned
AddPlaceholder(st, name) ==
    LET counter == FreeCounter(name, st.seen_names, 0)
        cur_name == name \o <<"_">> \o IntToStr(counter)
        id == Len(st.g) + 1
    IN  [st EXCEPT
           !.seen_names = @ \cup {cur_name},
           !.g = Append(@, UnitNode(id, "placeholder", cur_name, cur_name,
                                    <<>>, <<>>)),
           !.old_name_to_new_node =
               [x \in DOMAIN @ \cup {name} |-> IF x = name THEN id ELSE @[x]],
           !.p = id]

\* lines 376-381: the elements of a list/tuple positional argument; st.acc is
\* new_arg
RECURSIVE CopyInnerArgs(_, _)
CopyInnerArgs(st, xs) ==
    IF xs = <<>> THEN st
    ELSE LET a == Head(xs)
         IN  IF a.k = "node"
             THEN LET s1 == AddPlaceholder(st, a.n)
                  IN  CopyInnerArgs([s1 EXCEPT !.acc = Append(@, UnitRef(s1.p))],
                                    Tail(xs))
             ELSE CopyInnerArgs([st EXCEPT !.acc = Append(@, a)], Tail(xs))

\* lines 366-385: the positional arguments of the first node; st.args is
\* cur_args_copy
RECURSIVE CopyFirstArgs(_, _)
CopyFirstArgs(st, xs) ==
    IF xs = <<>> THEN st
    ELSE LET arg == Head(xs)
         IN  IF arg.k = "node"
             THEN LET s1 == AddPlaceholder(st, arg.n)
                  IN  CopyFirstArgs([s1 EXCEPT !.args = Append(@, UnitRef(s1.p))],
                                    Tail(xs))
             ELSE IF arg.k = "list"
             THEN LET s1 == CopyInnerArgs([st EXCEPT !.acc = <<>>], arg.items)
                  IN  CopyFirstArgs([s1 EXCEPT !.args = Append(@, ListArg(s1.acc))],
                                    Tail(xs))
             ELSE CopyFirstArgs([st EXCEPT !.args = Append(@, arg)], Tail(xs))

\* lines 397-400: the elements of a list/tuple keyword argument: every one is
\* handed to _add_placeholder, which reads its .name
RECURSIVE CopyInnerKwargs(_, _)
CopyInnerKwargs(st, xs) ==
    IF xs = <<>> \/ st.err # "none" THEN st
    ELSE LET a == Head(xs)
         IN  IF a.k = "node"
             THEN LET s1 == AddPlaceholder(st, a.n)
                  IN  CopyInnerKwargs([s1 EXCEPT !.acc = Append(@, UnitRef(s1.p))],
                                      Tail(xs))
             ELSE [st EXCEPT !.err = "AttributeError"]

\* lines 387-403: the keyword arguments of the first node; st.kwargs is
\* cur_kwargs_copy
RECURSIVE CopyFirstKwargs(_, _)
CopyFirstKwargs(st, kws) ==
    IF kws = <<>> \/ st.err # "none" THEN st
    ELSE LET kw == Head(kws)
         IN  IF kw.val.k = "node"
             THEN LET s1 == AddPlaceholder(st, kw.val.n)
                  IN  CopyFirstKwargs(
                        [s1 EXCEPT !.kwargs = Append(@, Kw(kw.key, UnitRef(s1.p)))],
                        Tail(kws))
             ELSE IF kw.val.k = "list"
             THEN LET s1 == CopyInnerKwargs([st EXCEPT !.acc = <<>>], kw.val.items)
                  IN  CopyFirstKwargs(
                        [s1 EXCEPT !.kwargs = Append(@, Kw(kw.key, ListArg(s1.acc)))],
                        Tail(kws))
             ELSE CopyFirstKwargs([st EXCEPT !.kwargs = Append(@, kw)], Tail(kws))

\* lines 342-405: the graph inputs, cur_args_copy and cur_kwargs_copy for the
\* first node; g is the unit's graph so far
SetUpFirstNode(g, node) ==
    LET s0 == [g |-> g, seen_names |-> {}, old_name_to_new_node |-> <<>>,
               args |-> <<>>, kwargs |-> <<>>, acc |-> <<>>, p |-> 0,
               err |-> "none"]
        s1 == CopyFirstArgs(s0, node.args)
    IN  CopyFirstKwargs(s1, node.kwargs)

(***************************************************************************)
(* create_submodule_from_subgraph: a node after the first (lines 406-435)  *)
(***************************************************************************)
\* lines 422-434: the arguments after the first.  A Parameter is cloned, set
\* on gm as mod_<cur_name_idx>, and then gm.placeholder is called: a
\* GraphModule has no such method, so the call raises AttributeError.
RECURSIVE CopyLaterArgs(_, _)
CopyLaterArgs(st, xs) ==
    IF xs = <<>> \/ st.err # "none" THEN st
    ELSE LET arg == Head(xs)
         IN  IF arg.k = "param"
             THEN [st EXCEPT
                     !.attrs = Append(@, <<"m", "o", "d", "_">>
                                           \o IntToStr(st.cur_name_idx)),
                     !.cur_name_idx = @ + 1,
                     !.err = "AttributeError"]
             ELSE IF arg.k = "lit"
             THEN CopyLaterArgs([st EXCEPT !.args = Append(@, arg)], Tail(xs))
             ELSE [st EXCEPT !.err = "AssertionError: arg not handled"]

\* lines 413-435
SetUpLaterNode(node, cur_node_copy, cur_name_idx, attrs) ==
    IF node.target \in BINARY_FUNCTIONS
    THEN [args |-> <<>>, cur_name_idx |-> cur_name_idx, attrs |-> attrs,
          err |-> "AssertionError: binary function"]
    ELSE CopyLaterArgs([args |-> <<UnitRef(cur_node_copy)>>,
                        cur_name_idx |-> cur_name_idx, attrs |-> attrs,
                        err |-> "none"],
                       IF Len(node.args) > 1 THEN Tail(node.args) ELSE <<>>)

(***************************************************************************)
(* create_submodule_from_subgraph: copying a node and moving on            *)
(***************************************************************************)
ModName(cur_name_idx) == <<"m", "o", "d", "_">> \o IntToStr(cur_name_idx)

\* lines 437-455: the copy of the node; r.g is the unit's graph, r.attrs the
\* names set on gm, r.copy the id of cur_node_copy
CopyNode(node, g, attrs, cur_name_idx, cur_args_copy, cur_kwargs_copy) ==
    LET id == Len(g) + 1
    IN  IF node.op = "call_module"
        THEN [err |-> "none", copy |-> id,
              attrs |-> Append(attrs, ModName(cur_name_idx)),
              cur_name_idx |-> cur_name_idx + 1,
              g |-> Append(g, UnitNode(id, "call_module", ModName(cur_name_idx),
                                       "mod", cur_args_copy, cur_kwargs_copy))]
        ELSE IF node.op \in {"call_function", "call_method"}
        THEN [err |-> "none", copy |-> id, attrs |-> attrs,
              cur_name_idx |-> cur_name_idx,
              g |-> Append(g, UnitNode(id, node.op, <<node.target>>,
                                       node.target, cur_args_copy,
                                       cur_kwargs_copy))]
        ELSE [err |-> "AssertionError: op not supported", copy |-> 0,
              attrs |-> attrs, cur_name_idx |-> cur_name_idx, g |-> g]

\* (mutant: the iteration counter is not advanced)
NextIterationStuck(cur_iteration) == cur_iteration

\* line 467
NextIteration(cur_iteration) == cur_iteration + 1

\* lines 471-472: g.output(cur_node_copy)
AddOutput(g, cur_node_copy) ==
    Append(g, UnitNode(Len(g) + 1, "output", <<"output">>, "output",
                       <<UnitRef(cur_node_copy)>>, <<>>))

Raised(w, m, e) == [pc |-> "raised", walk |-> [w EXCEPT !.err = e], gm |-> m]

\* lines 457-475: after the copy: leave the loop at last_node, or go to the
\* only user
MoveOn(h, w, m) ==
    IF w.cur_node_orig = h.last_node
    THEN [pc |-> "returned", walk |-> w,
          gm |-> [m EXCEPT !.g = AddOutput(@, w.cur_node_copy)]]
    ELSE IF Len(h.users[w.cur_node_orig]) # 1
    THEN Raised(w, m, "AssertionError: more than 1 users")
    ELSE LET w1 == [w EXCEPT !.cur_node_orig = h.users[w.cur_node_orig][1],
                             !.cur_iteration = NextIteration(@)]
         IN  IF w1.cur_iteration > iteration_limit
             THEN Raised(w1, m, "AssertionError: iteration limit exceeded")
             ELSE [pc |-> "loop", walk |-> w1, gm |-> m]

\* lines 341-469: one iteration of the while loop, and lines 471-475 when it
\* leaves the loop
LoopBody(h, w, m) ==
    LET node == h.nodes[w.cur_node_orig]
    IN  IF w.cur_node_orig = h.first_node
        THEN LET f == SetUpFirstNode(m.g, node)
             IN  IF f.err # "none"
                 THEN Raised(w, [m EXCEPT !.g = f.g], f.err)
                 ELSE LET c == CopyNode(node, f.g, m.attrs, w.cur_name_idx,
                                        f.args, f.kwargs)
                      IN  IF c.err # "none"
                          THEN Raised([w EXCEPT !.cur_kwargs_copy = f.kwargs],
                                      [m EXCEPT !.g = c.g], c.err)
                          ELSE MoveOn(h,
                                 [w EXCEPT !.cur_kwargs_copy = f.kwargs,
                                           !.cur_name_idx = c.cur_name_idx,
                                           !.cur_node_copy = c.copy],
                                 [m EXCEPT !.g = c.g, !.attrs = c.attrs])
        ELSE LET l == SetUpLaterNode(node, w.cur_node_copy, w.cur_name_idx,
                                     m.attrs)
             IN  IF l.err # "none"
                 THEN Raised([w EXCEPT !.cur_name_idx = l.cur_name_idx],
                             [m EXCEPT !.attrs = l.attrs], l.err)
                 ELSE LET c == CopyNode(node, m.g, l.attrs, l.cur_name_idx,
                                        l.args, w.cur_kwargs_copy)
                      IN  IF c.err # "none"
                          THEN Raised(w, m, c.err)
                          ELSE MoveOn(h,
                                 [w EXCEPT !.cur_name_idx = c.cur_name_idx,
                                           !.cur_node_copy = c.copy],
                                 [m EXCEPT !.g = c.g, !.attrs = c.attrs])

(***************************************************************************)
(* _get_logger_for_subgraph and _add_logger_to_subgraph_wrapper            *)
(***************************************************************************)
\* line 215: f'subgraph_{subgraph_idx}_{subgraph_candidate_idx}'
ModelName(subgraph_idx, subgraph_candidate_idx) ==
    <<"s", "u", "b", "g", "r", "a", "p", "h", "_">>
        \o IntToStr(subgraph_idx) \o <<"_">> \o IntToStr(subgraph_candidate_idx)

\* (mutant: the logger is left enabled)
GetLoggerForSubgraphEnabled(first_node, last_node, subgraph_idx, subgraph_candidate_idx, qconfig_str) ==
    [ref_node_name |-> first_node.name,
     prev_node_name |-> last_node.name,
     model_name |-> ModelName(subgraph_idx, subgraph_candidate_idx),
     ref_name |-> "model",
     qconfig_str |-> qconfig_str,
     enabled |-> TRUE]

\* lines 198-226
GetLoggerForSubgraph(first_node, last_node, subgraph_idx, subgraph_candidate_idx, qconfig_str) ==
    [ref_node_name |-> first_node.name,
     prev_node_name |-> last_node.name,
     model_name |-> ModelName(subgraph_idx, subgraph_candidate_idx),
     ref_name |-> "model",
     qconfig_str |-> qconfig_str,
     enabled |-> FALSE]

\* lines 37-38: _get_attr_name, SHADOW_NODE_NAME_PREFIX = 'shadow'
GetAttrName(subgraph_idx, subgraph_candidate_idx) ==
    <<"s", "h", "a", "d", "o", "w", "_">> \o IntToStr(subgraph_idx)
        \o <<"_">> \o IntToStr(subgraph_candidate_idx)

\* the position in the graph of the node with this id
PositionOf(g, id) == CHOOSE i \in 1..Len(g) : g[i].id = id

\* with graph.inserting_before(node): the new node goes right before it
InsertBefore(g, id, new) ==
    LET i == PositionOf(g, id)
    IN  SubSeq(g, 1, i - 1) \o <<new>> \o SubSeq(g, i, Len(g))

\* with graph.inserting_after(node): the new node goes right after it
InsertAfter(g, id, new) ==
    LET i == PositionOf(g, id)
    IN  SubSeq(g, 1, i) \o <<new>> \o SubSeq(g, i + 1, Len(g))

\* lines 228-279
AddLoggerToSubgraphWrapper(m, subgraph_idx, subgraph_candidate_idx, qconfig_str) ==
    IF Len(m.g) < 2
    THEN [err |-> "AssertionError", gm |-> m]
    ELSE
    LET first_node == m.g[1]
        last_node == m.g[PositionOf(m.g, m.g[Len(m.g)].args[1].ref)]
        logger_mod == GetLoggerForSubgraph(first_node, last_node, subgraph_idx,
                                           subgraph_candidate_idx, qconfig_str)
        attr_name == GetAttrName(subgraph_idx, subgraph_candidate_idx)
        new_ph == UnitNode(Len(m.g) + 1, "placeholder", <<"SHADOW_PH_NAME">>,
                           "", <<>>, <<>>)
        g1 == InsertBefore(m.g, first_node.id, new_ph)
        new_node == UnitNode(Len(m.g) + 2, "call_module", attr_name, "mod",
                             <<UnitRef(last_node.id), UnitRef(new_ph.id)>>, <<>>)
        g2 == InsertAfter(g1, last_node.id, new_node)
    IN  IF InSeq(attr_name, m.attrs)
        THEN [err |-> "AssertionError", gm |-> m]
        ELSE [err |-> "none",
              gm |-> [g |-> g2,
                      attrs |-> Append(m.attrs, attr_name),
                      loggers |-> Append(m.loggers,
                                         [attr_name |-> attr_name,
                                          mod |-> logger_mod])]]

\* the input placeholders of a unit
Placeholders(g) == { i \in 1..Len(g) : g[i].op = "placeholder" }

(***************************************************************************)
(* The extractor's state machine: create_submodule_from_subgraph walks the *)
(* host chain one loop iteration at a time; loggers are then added to the  *)
(* unit it returned.                                                       *)
(***************************************************************************)
\* the users of the walk's end node: none, one node of the chain (a cycle when
\* the walk goes on from there), or two
EndUsers(n) == {<<>>, <<1, 0>>} \cup { <<j>> : j \in 1..n }

\* node.users along the chain: node i is used by node i + 1, one node at most
\* also by a node outside the chain (0)
UsersSeqs(n) ==
    { u \in [1..n -> EndUsers(n) \cup { <<i + 1>> : i \in 1..n }
                      \cup { <<i + 1, 0>> : i \in 1..n }] :
        /\ u[n] \in EndUsers(n)
        /\ \A i \in 1..(n - 1) : u[i] \in {<<i + 1>>, <<i + 1, 0>>}
        /\ \A i, j \in 1..(n - 1) : (i # j /\ Len(u[i]) = 2) => Len(u[j]) = 1 }

NodeSeqs(n) ==
    { f \in [1..n -> FirstNodes \cup EndNodes] :
        /\ f[1] \in FirstNodes
        /\ \A i \in 2..n : f[i] \in (IF i < n THEN PassableNodes ELSE EndNodes) }

\* the host chains: node 1 is first_node; last_node is a node of the chain, or
\* a node the walk does not reach (0)
HostChains ==
    UNION { { [nodes |-> f, users |-> u, first_node |-> 1, last_node |-> l] :
                f \in NodeSeqs(n), u \in UsersSeqs(n), l \in 0..n } :
            n \in 1..MaxHostNodes }

\* subgraph_idx, subgraph_candidate_idx and qconfig_str of a logger
SubgraphIdxs == {0}
CandidateIdxs == {0, 1}
QconfigStrs == {"qconfig1"}

\* the most loggers added to one unit
MaxLoggerCalls == 2

IdleExtract ==
    /\ host = [nodes |-> <<>>, users |-> <<>>, first_node |-> 0, last_node |-> 0]
    /\ pc = "idle"
    /\ walk = [cur_node_orig |-> 0, cur_iteration |-> 0, cur_name_idx |-> 0,
               cur_kwargs_copy |-> <<>>, cur_node_copy |-> 0, err |-> "none"]
    /\ gm = [g |-> <<>>, attrs |-> <<>>, loggers |-> <<>>]
    /\ logger_calls = <<>>

IdleDedup ==
    /\ matches = <<>>
    /\ dedup_runs = <<>>

\* group_results_by_subgraph is not called
IdleGroup ==
    /\ results = <<>>
    /\ grouped = [done |-> FALSE, err |-> "none", out |-> <<>>]

\* print_n_shadows_summary is not called
IdlePrint ==
    /\ comparison = <<>>
    /\ summary = [called |-> FALSE]

InitExtract ==
    /\ IdleDedup
    /\ IdleExtract
    /\ IdleGroup
    /\ IdlePrint

\* create_submodule_from_subgraph(model, first_node, last_node) is called;
\* lines 318-339: the blank unit and the locals before the loop
CallCreate ==
    /\ pc = "idle"
    /\ host' \in HostChains
    /\ pc' = "loop"
    /\ walk' = [cur_node_orig |-> host'.first_node, cur_iteration |-> 0,
                cur_name_idx |-> 0, cur_kwargs_copy |-> <<>>,
                cur_node_copy |-> 0, err |-> "none"]
    /\ gm' = [g |-> <<>>, attrs |-> <<>>, loggers |-> <<>>]
    /\ UNCHANGED <<logger_calls, dedupVars, groupVars, printVars>>

\* one iteration of the while loop of create_submodule_from_subgraph
WalkStep ==
    /\ pc = "loop"
    /\ LET r == LoopBody(host, walk, gm)
       IN  /\ pc' = r.pc
           /\ walk' = r.walk
           /\ gm' = r.gm
    /\ UNCHANGED <<host, logger_calls, dedupVars, groupVars, printVars>>

\* one call of _add_logger_to_subgraph_wrapper on the returned unit
AddLogger ==
    /\ pc = "returned"
    /\ Len(logger_calls) < MaxLoggerCalls
    /\ \E i \in SubgraphIdxs, j \in CandidateIdxs, q \in QconfigStrs :
          LET r == AddLoggerToSubgraphWrapper(gm, i, j, q)
          IN  /\ gm' = r.gm
              /\ logger_calls' =
                    Append(logger_calls,
                           [err |-> r.err,
                            attr_name |-> GetAttrName(i, j),
                            loggers_before |-> Len(gm.loggers),
                            placeholders_before |-> Cardinality(Placeholders(gm.g)),
                            placeholders_after |-> Cardinality(Placeholders(r.gm.g))])
    /\ UNCHANGED <<host, pc, walk, dedupVars, groupVars, printVars>>

NextExtract == CallCreate \/ WalkStep \/ AddLogger

SpecExtract == InitExtract /\ [][NextExtract]_vars

(***************************************************************************)
(* The deduplicator's state machine: the matcher reports matches, then     *)
(* _get_dedup_subgraphs is called on the same mapping object, possibly     *)
(* more than once.                                                         *)
(***************************************************************************)
InitDedup ==
    /\ matches = <<>>
    /\ dedup_runs = <<>>
    /\ IdleExtract
    /\ IdleGroup
    /\ IdlePrint

\* the number of nodes the entries of the mapping name, all entries together
RECURSIVE MatchedNodes(_)
MatchedNodes(ms) ==
    IF ms = <<>> THEN 0
    ELSE Len(FlatNodes(Head(ms))) + MatchedNodes(Tail(ms))

\* the matcher adds an entry to the mapping
FindMatch ==
    /\ dedup_runs = <<>>
    /\ Len(matches) < MaxMatches
    /\ \E shape \in MatchShapes :
          /\ MatchedNodes(matches) + Len(FlatNodes(shape)) <= MaxMatchedNodes
          /\ matches' = Append(matches, shape)
    /\ UNCHANGED <<dedup_runs, extractVars, groupVars, printVars>>

\* one call of _get_dedup_subgraphs(matches), the k-th at most; after a call
\* that raised the caller does not call again
CallDedup(k) ==
    /\ Len(dedup_runs) < k
    /\ (dedup_runs # <<>> => dedup_runs[Len(dedup_runs)].err = "none")
    /\ LET r == GetDedupSubgraphs(HostGraph, matches)
       IN  /\ matches' = r.heap
           /\ dedup_runs' = Append(dedup_runs,
                                   [input |-> matches, err |-> r.err,
                                    out |-> r.out, skipped |-> r.skipped])
    /\ UNCHANGED <<extractVars, groupVars, printVars>>

\* the mapping is deduplicated once
NextDedup == FindMatch \/ CallDedup(1)

SpecDedup == InitDedup /\ [][NextDedup]_vars

\* the mapping is deduplicated twice in succession
NextDedupTwice == FindMatch \/ CallDedup(2)

SpecDedupTwice == InitDedup /\ [][NextDedupTwice]_vars

(***************************************************************************)
(* Python dicts, in insertion order: sequences of entries [key, val]       *)
(***************************************************************************)
DictEntry(key, val) == [key |-> key, val |-> val]

DictKeys(d) == [k \in 1..Len(d) |-> d[k].key]

DictHas(d, key) == \E k \in 1..Len(d) : d[k].key = key

DictGet(d, key) == d[CHOOSE k \in 1..Len(d) : d[k].key = key].val

\* d[key] = val: a key the dict has keeps its place, a new key goes last
DictSet(d, key, val) ==
    IF DictHas(d, key)
    THEN [k \in 1..Len(d) |-> IF d[k].key = key THEN DictEntry(key, val) ELSE d[k]]
    ELSE Append(d, DictEntry(key, val))

(***************************************************************************)
(* group_results_by_subgraph (lines 477-549)                               *)
(***************************************************************************)
\* str.split(sep): parts holds the finished parts, cur the part being read
RECURSIVE SplitFrom(_, _, _, _)
SplitFrom(s, sep, parts, cur) ==
    IF s = <<>> THEN Append(parts, cur)
    ELSE IF Head(s) = sep
    THEN SplitFrom(Tail(s), sep, Append(parts, cur), <<>>)
    ELSE SplitFrom(Tail(s), sep, parts, Append(cur, Head(s)))

Split(s, sep) == SplitFrom(s, sep, <<>>, <<>>)

\* lines 538-544: the five fields carried over from a logger record
SubgraphResults(rec) ==
    [ref_node_name |-> rec.ref_node_name,
     values |-> rec.values,
     qconfig_str |-> rec.qconfig_str,
     comparisons |-> rec.comparisons,
     comparison_fn_name |-> rec.comparison_fn_name]

\* (mutant: a plain dict per subgraph name, made anew for every key)
GroupStepNoAccumulate(acc, entry) ==
    LET parts == Split(entry.key, "_")
    IN  IF acc.err # "none" THEN acc
        ELSE IF Len(parts) # 3 THEN [acc EXCEPT !.err = "ValueError"]
        ELSE IF entry.val = <<>> THEN [acc EXCEPT !.err = "IndexError"]
        ELSE LET subgraph_name == parts[1] \o <<"_">> \o parts[2]
             IN  [acc EXCEPT !.out =
                    DictSet(@, subgraph_name,
                            DictSet(<<>>, parts[3], SubgraphResults(entry.val[1])))]

\* lines 530-547: one iteration of the loop over results.items()
GroupStep(acc, entry) ==
    LET parts == Split(entry.key, "_")
    IN  IF acc.err # "none" THEN acc
        ELSE IF Len(parts) # 3 THEN [acc EXCEPT !.err = "ValueError"]
        ELSE IF entry.val = <<>> THEN [acc EXCEPT !.err = "IndexError"]
        ELSE LET subgraph_name == parts[1] \o <<"_">> \o parts[2]
                 \* defaultdict(dict): a missing name starts as an empty dict
                 inner == IF DictHas(acc.out, subgraph_name)
                          THEN DictGet(acc.out, subgraph_name) ELSE <<>>
             IN  [acc EXCEPT !.out =
                    DictSet(@, subgraph_name,
                            DictSet(inner, parts[3], SubgraphResults(entry.val[1])))]

RECURSIVE GroupFrom(_, _, _)
GroupFrom(res, k, acc) ==
    IF k > Len(res) THEN acc
    ELSE GroupFrom(res, k + 1, GroupStep(acc, res[k]))

\* lines 528-549
GroupResultsBySubgraph(res) ==
    GroupFrom(res, 1, [done |-> TRUE, err |-> "none", out |-> <<>>])

\* the records a logger collects: the five fields that are carried over, and
\* one that is not
LoggerRecord(ref_node_name, values, qconfig_str, comparisons, comparison_fn_name) ==
    [ref_node_name |-> ref_node_name, values |-> values,
     qconfig_str |-> qconfig_str, comparisons |-> comparisons,
     comparison_fn_name |-> comparison_fn_name, prev_node_name |-> "prev"]

BaselineRecord == LoggerRecord("linear1", <<10, 20>>, "", <<>>, "")

CandidateRecord == LoggerRecord("linear2", <<11, 19>>, "qconfig1", <<45, 55>>, "sqnr")

\* the record lists of a key: one record, or several
RecordLists == { <<BaselineRecord>>, <<CandidateRecord>>,
                 <<CandidateRecord, BaselineRecord>> }

\* the subgraph and candidate indices of the result keys subgraph_<i>_<j>
ResultSubgraphIdxs == {0, 1, 10}
ResultCandidateIdxs == {0, 1}

\* the most keys of the flat result map
MaxResults == 3

InitGroup ==
    /\ IdleDedup
    /\ IdleExtract
    /\ IdleGroup
    /\ IdlePrint

\* a logger's results are collected under its model_name
AddResult ==
    /\ ~grouped.done
    /\ Len(results) < MaxResults
    /\ \E i \in ResultSubgraphIdxs, j \in ResultCandidateIdxs, recs \in RecordLists :
          /\ ~DictHas(results, ModelName(i, j))
          /\ results' = DictSet(results, ModelName(i, j), recs)
    /\ UNCHANGED <<grouped, dedupVars, extractVars, printVars>>

\* group_results_by_subgraph(results) is called
Group ==
    /\ ~grouped.done
    /\ grouped' = GroupResultsBySubgraph(results)
    /\ UNCHANGED <<results, dedupVars, extractVars, printVars>>

NextGroup == AddResult \/ Group

SpecGroup == InitGroup /\ [][NextGroup]_vars

(***************************************************************************)
(* print_n_shadows_summary (lines 622-688)                                 *)
(***************************************************************************)
\* line 668: best_val starts at -10000.0
InitialBestVal == -10000

\* line 668: best_candidate starts as None
NoCandidate == 0

\* lines 669-672: idx counts from 1 here, so it is the code's idx + 1
RECURSIVE BestFrom(_, _, _, _)
BestFrom(means, idx, best_val, best_candidate) ==
    IF idx > Len(means) THEN best_candidate
    ELSE IF means[idx] > best_val
    THEN BestFrom(means, idx + 1, means[idx], idx)
    ELSE BestFrom(means, idx + 1, best_val, best_candidate)

\* lines 660-680: the data row of one subgraph; ref_node_name is
\* data_row[1], the means are data_row[3:]
DataRow(entry) ==
    LET candidates == entry.val.candidates
        mean_all_candidates == [k \in 1..Len(candidates) |-> candidates[k].val.cmp_mean]
    IN  [subgraph_name |-> entry.key,
         ref_node_name |-> entry.val.ref_node_name,
         best_candidate |-> BestFrom(mean_all_candidates, 1, InitialBestVal,
                                     NoCandidate),
         means |-> mean_all_candidates]

Max(a, b) == IF a >= b THEN a ELSE b

\* lines 682-684
RECURSIVE MaxCandidateIdxLenFrom(_, _, _)
MaxCandidateIdxLenFrom(rows, k, max_candidate_idx_len) ==
    IF k > Len(rows) THEN max_candidate_idx_len
    ELSE MaxCandidateIdxLenFrom(rows, k + 1,
             Max(max_candidate_idx_len, Len(rows[k].ref_node_name)))

\* line 685: [str(x + 1) for x in range(max_candidate_idx_len)]
CandidateIdxHeaders(max_candidate_idx_len) ==
    [x \in 1..max_candidate_idx_len |-> IntToStr(x)]

\* lines 649-688.  tabulate_found: the import of line 650 succeeds.  When it
\* fails the message is printed and the function goes on; the name tabulate
\* is then unbound at line 688.
PrintNShadowsSummary(results_comparison, tabulate_found) ==
    LET rows == [k \in 1..Len(results_comparison) |-> DataRow(results_comparison[k])]
        candidate_idx_headers ==
            CandidateIdxHeaders(MaxCandidateIdxLenFrom(rows, 1, -1))
    IN  [called |-> TRUE,
         tabulate_found |-> tabulate_found,
         message |-> ~tabulate_found,
         rows |-> rows,
         candidate_idx_headers |-> candidate_idx_headers,
         table |-> tabulate_found,
         err |-> IF tabulate_found THEN "none" ELSE "UnboundLocalError"]

\* f'subgraph_{i}'
SubgraphName(i) == <<"s", "u", "b", "g", "r", "a", "p", "h", "_">> \o IntToStr(i)

\* ref_node_name of a subgraph
RefNodeNames == { <<"f", "c">>, <<"c", "o", "n", "v">> }

\* cmp_mean of a candidate
Means == {-20000, 50, 62}

\* the most subgraphs of results_comparison
MaxSubgraphs == 2

\* the most candidates of results_comparison, over all its subgraphs
MaxCandidates == 3

\* the candidates of results_comparison, over all its subgraphs
RECURSIVE CandidatesIn(_)
CandidatesIn(rc) ==
    IF rc = <<>> THEN 0
    ELSE Len(Head(rc).val.candidates) + CandidatesIn(Tail(rc))

InitPrint ==
    /\ IdleDedup
    /\ IdleExtract
    /\ IdleGroup
    /\ IdlePrint

\* results_comparison gets its next subgraph, without candidates yet
AddSubgraph ==
    /\ ~summary.called
    /\ Len(comparison) < MaxSubgraphs
    /\ \E name \in RefNodeNames :
          comparison' = DictSet(comparison, SubgraphName(Len(comparison)),
                                [ref_node_name |-> name, candidates |-> <<>>])
    /\ UNCHANGED <<summary, dedupVars, extractVars, groupVars>>

\* the last subgraph gets its next candidate
AddCandidate ==
    /\ ~summary.called
    /\ comparison # <<>>
    /\ CandidatesIn(comparison) < MaxCandidates
    /\ \E mean \in Means :
          LET last == comparison[Len(comparison)]
              name == IntToStr(Len(last.val.candidates) + 1)
          IN  comparison' =
                DictSet(comparison, last.key,
                        [last.val EXCEPT !.candidates =
                            DictSet(@, name, [cmp_mean |-> mean])])
    /\ UNCHANGED <<summary, dedupVars, extractVars, groupVars>>

\* print_n_shadows_summary(comparison) is called, with tabulate installed or
\* not
PrintSummary ==
    /\ ~summary.called
    /\ \E tabulate_found \in BOOLEAN :
          summary' = PrintNShadowsSummary(comparison, tabulate_found)
    /\ UNCHANGED <<comparison, dedupVars, extractVars, groupVars>>

NextPrint == AddSubgraph \/ AddCandidate \/ PrintSummary

SpecPrint == InitPrint /\ [][NextPrint]_vars

(***************************************************************************)
(* Properties of the deduplicator                                          *)
(***************************************************************************)
DedupReturned(r) == r.err = "none"

NoRepeat(s) == \A i, j \in 1..Len(s) : i # j => s[i] # s[j]

EntryNodes(shape) == SeqRange(FlatNodes(shape))

\* every node of s is among the arguments of the node that follows it
IsDependencyChain(s) ==
    \A p \in 1..(Len(s) - 1) : InSeq(s[p], NodeArgs(HostGraph, s[p + 1]))

\* the nodes of the shape are distinct and, put in some order, form a
\* dependency chain: the shape is a pattern instance of the host graph
IsPatternInstance(shape) ==
    LET ns == FlatNodes(shape)
    IN  /\ NoRepeat(ns)
        /\ \E f \in [1..Len(ns) -> 1..Len(ns)] :
               /\ \A i, j \in 1..Len(ns) : i # j => f[i] # f[j]
               /\ IsDependencyChain([p \in 1..Len(ns) |-> ns[f[p]]])

\* C1: two calls in succession on the same matches mapping return the same
\* keys, each with the same node list in the same order (the second return
\* value equals the first as it was returned).
C1_SameResultTwice ==
    (Len(dedup_runs) = 2 /\ DedupReturned(dedup_runs[1])
                        /\ DedupReturned(dedup_runs[2]))
        => dedup_runs[2].out = dedup_runs[1].out

\* C2: in every returned mapping no node is in two node lists and no node is
\* twice in one list.
C2_NodesInAtMostOneList ==
    \A c \in 1..Len(dedup_runs) :
        LET r == dedup_runs[c]
        IN  DedupReturned(r) =>
              /\ \A k \in 1..Len(r.out) : NoRepeat(r.out[k].nodes)
              /\ \A k, l \in 1..Len(r.out) :
                    k # l => SeqRange(r.out[k].nodes)
                               \cap SeqRange(r.out[l].nodes) = {}

\* a call returned two subgraphs, one of several nodes, and skipped an entry
\* that overlaps an accepted one
C2_Witness ==
    \E c \in 1..Len(dedup_runs) :
        LET r == dedup_runs[c]
        IN  /\ DedupReturned(r)
            /\ Len(r.out) >= 2
            /\ \E k \in 1..Len(r.out) : Len(r.out[k].nodes) >= 2
            /\ \E i \in r.skipped : \E k \in 1..Len(r.out) :
                  EntryNodes(r.input[i]) \cap SeqRange(r.out[k].nodes) # {}

\* C3: every returned node list of length 2 or 3 is in dependency order,
\* whatever order the matcher listed the pattern's nodes in.  (Stated for the
\* entries that are pattern instances of the host graph.)
C3_ChronologicalOrder ==
    \A c \in 1..Len(dedup_runs) :
        LET r == dedup_runs[c]
        IN  DedupReturned(r) =>
              \A k \in 1..Len(r.out) :
                 (Len(r.out[k].nodes) \in {2, 3}
                    /\ IsPatternInstance(r.input[r.out[k].name]))
                 => IsDependencyChain(r.out[k].nodes)

\* entry j is visited before entry i in the reverse-order pass
VisitedBefore(j, i) == j > i

\* C9 as claimed: an entry is skipped iff one of its nodes belongs to an
\* entry accepted earlier in the pass.  (Stated for mappings whose entries
\* name no node twice.)
C9_SkippedIffClaimedByAccepted ==
    \A c \in 1..Len(dedup_runs) :
        LET r == dedup_runs[c]
        IN  (DedupReturned(r)
               /\ \A i \in 1..Len(r.input) : NoRepeat(FlatNodes(r.input[i])))
            => \A i \in 1..Len(r.input) :
                  i \in r.skipped <=>
                    \E j \in 1..Len(r.input) :
                       /\ VisitedBefore(j, i)
                       /\ j \notin r.skipped
                       /\ EntryNodes(r.input[i]) \cap EntryNodes(r.input[j]) # {}

\* C9 as amended: an entry is skipped iff one of its nodes occurs in an entry
\* visited earlier in the pass, accepted or skipped, or occurs earlier within
\* the entry itself (the entry names a node twice).
C9_SkippedIffSeenEarlier ==
    \A c \in 1..Len(dedup_runs) :
        LET r == dedup_runs[c]
        IN  DedupReturned(r) =>
              \A i \in 1..Len(r.input) :
                  i \in r.skipped <=>
                    \/ ~NoRepeat(FlatNodes(r.input[i]))
                    \/ \E j \in 1..Len(r.input) :
                          /\ VisitedBefore(j, i)
                          /\ EntryNodes(r.input[i]) \cap EntryNodes(r.input[j]) # {}

\* an entry that names no node twice was skipped although none of its nodes
\* is in an accepted entry: it shares a node only with an earlier skipped
\* entry; and an entry was skipped for naming a node twice, although it
\* shares no node with an entry visited before it
C9_Witness ==
    \E c \in 1..Len(dedup_runs) :
        LET r == dedup_runs[c]
        IN  /\ DedupReturned(r)
            /\ \E i \in r.skipped :
                  /\ NoRepeat(FlatNodes(r.input[i]))
                  /\ \A j \in 1..Len(r.input) :
                        (VisitedBefore(j, i) /\ j \notin r.skipped)
                          => EntryNodes(r.input[i]) \cap EntryNodes(r.input[j]) = {}
                  /\ \E j \in r.skipped :
                        /\ VisitedBefore(j, i)
                        /\ EntryNodes(r.input[i]) \cap EntryNodes(r.input[j]) # {}
            /\ \E i \in r.skipped :
                  /\ ~NoRepeat(FlatNodes(r.input[i]))
                  /\ \A j \in 1..Len(r.input) :
                        VisitedBefore(j, i)
                          => EntryNodes(r.input[i]) \cap EntryNodes(r.input[j]) = {}

(***************************************************************************)
(* Properties of the extractor                                             *)
(***************************************************************************)
\* the Node-valued arguments of a host node, one per occurrence: positional,
\* inside a list or tuple, and keyword
RECURSIVE NodeOccurrences(_)
NodeOccurrences(xs) ==
    IF xs = <<>> THEN <<>>
    ELSE (IF Head(xs).k = "node" THEN <<Head(xs).n>>
          ELSE IF Head(xs).k = "list" THEN NodeOccurrences(Head(xs).items)
          ELSE <<>>) \o NodeOccurrences(Tail(xs))

FirstNodeOccurrences ==
    LET node == host.nodes[host.first_node]
    IN  NodeOccurrences(node.args)
          \o NodeOccurrences([i \in 1..Len(node.kwargs) |-> node.kwargs[i].val])

\* create_submodule_from_subgraph has returned and no logger was added yet
UnitReturned == pc = "returned" /\ logger_calls = <<>>

\* C4 as claimed: the unit has as many input placeholders as the first node
\* has distinct Node-valued arguments.
C4_PlaceholderPerDistinctSource ==
    UnitReturned =>
        Cardinality(Placeholders(gm.g)) = Cardinality(SeqRange(FirstNodeOccurrences))

\* C4 as amended: the unit has one input placeholder per occurrence of a Node
\* among the first node's arguments, a repeated source included, and the
\* placeholders' names are distinct.
C4_PlaceholderPerOccurrence ==
    UnitReturned =>
        /\ Cardinality(Placeholders(gm.g)) = Len(FirstNodeOccurrences)
        /\ \A i, j \in Placeholders(gm.g) : i # j => gm.g[i].name # gm.g[j].name

\* the unit of a chain that starts with y = x + x was returned
C4_Witness ==
    /\ UnitReturned
    /\ Len(FirstNodeOccurrences) > Cardinality(SeqRange(FirstNodeOccurrences))
    /\ Cardinality(Placeholders(gm.g)) = 2

\* C7: a successful _add_logger_to_subgraph_wrapper leaves the unit with
\* exactly one more input placeholder, and the logger it registered is
\* disabled.
C7_OneMorePlaceholderLoggerDisabled ==
    \A c \in 1..Len(logger_calls) :
        logger_calls[c].err = "none" =>
            /\ logger_calls[c].placeholders_after
                 = logger_calls[c].placeholders_before + 1
            /\ LET l == gm.loggers[logger_calls[c].loggers_before + 1]
               IN  /\ l.attr_name = logger_calls[c].attr_name
                   /\ l.mod.enabled = FALSE

\* two loggers were added to a unit that had input placeholders
C7_Witness ==
    /\ Len(logger_calls) = 2
    /\ logger_calls[1].err = "none"
    /\ logger_calls[2].err = "none"
    /\ logger_calls[1].placeholders_before >= 1

\* C10: create_submodule_from_subgraph always terminates.  A loop iteration
\* starts only while the walk has gone on to a next node at most
\* iteration_limit times; every iteration either ends the call (returned or
\* raised) or goes on to a next node and counts it, so the count is a variant
\* of the loop; and once the count exceeds iteration_limit the call has
\* raised the iteration-limit failure.
C10_WalkTerminates ==
    /\ [](pc = "loop" => walk.cur_iteration <= iteration_limit)
    /\ [][pc = "loop" =>
            \/ pc' \in {"returned", "raised"}
            \/ /\ pc' = "loop"
               /\ walk'.cur_iteration = walk.cur_iteration + 1]_vars
    /\ [](walk.cur_iteration > iteration_limit =>
            (pc = "raised"
             /\ walk.err = "AssertionError: iteration limit exceeded"
             /\ walk.cur_iteration = iteration_limit + 1))

\* the walk went round a cycle until the iteration limit stopped it
C10_Witness ==
    /\ pc = "raised"
    /\ walk.err = "AssertionError: iteration limit exceeded"
    /\ host.last_node = 0

(***************************************************************************)
(* Properties of the results aggregation                                   *)
(***************************************************************************)
\* the subgraph indices and the candidate indices among the keys of results
SubgraphIdxsIn(res) ==
    { i \in ResultSubgraphIdxs :
        \E j \in ResultCandidateIdxs : DictHas(res, ModelName(i, j)) }

CandidateIdxsIn(res, i) ==
    { j \in ResultCandidateIdxs : DictHas(res, ModelName(i, j)) }

\* C8: group_results_by_subgraph returns exactly one top-level entry
\* subgraph_<i> per distinct i among the keys subgraph_<i>_<j> of the input;
\* the candidate keys of that entry are exactly the strings j of these keys,
\* and each holds ref_node_name, values, qconfig_str, comparisons and
\* comparison_fn_name of the first record of its key, unchanged.
C8_GroupedBySubgraph ==
    grouped.done =>
        /\ grouped.err = "none"
        /\ NoRepeat(DictKeys(grouped.out))
        /\ SeqRange(DictKeys(grouped.out))
             = { SubgraphName(i) : i \in SubgraphIdxsIn(results) }
        /\ \A i \in SubgraphIdxsIn(results) :
              LET inner == DictGet(grouped.out, SubgraphName(i))
              IN  /\ NoRepeat(DictKeys(inner))
                  /\ SeqRange(DictKeys(inner))
                       = { IntToStr(j) : j \in CandidateIdxsIn(results, i) }
                  /\ \A j \in CandidateIdxsIn(results, i) :
                        LET first == DictGet(results, ModelName(i, j))[1]
                            held == DictGet(inner, IntToStr(j))
                        IN  /\ DOMAIN held = {"ref_node_name", "values",
                                              "qconfig_str", "comparisons",
                                              "comparison_fn_name"}
                            /\ held.ref_node_name = first.ref_node_name
                            /\ held.values = first.values
                            /\ held.qconfig_str = first.qconfig_str
                            /\ held.comparisons = first.comparisons
                            /\ held.comparison_fn_name = first.comparison_fn_name

\* three keys were grouped: two candidates of subgraph 10, one of them with
\* several records, and one candidate of another subgraph
C8_Witness ==
    /\ grouped.done
    /\ Len(results) = 3
    /\ CandidateIdxsIn(results, 10) = {0, 1}
    /\ Len(grouped.out) = 2
    /\ \E k \in 1..Len(results) : Len(results[k].val) > 1

\* C5: when tabulate cannot be imported, print_n_shadows_summary prints the
\* remediation message and returns normally, whatever its input.
C5_NoTabulateReturnsNormally ==
    (summary.called /\ ~summary.tabulate_found) =>
        (summary.message /\ summary.err = "none")

\* the highest mean and the earliest position that has it
HighestMean(means) == CHOOSE m \in SeqRange(means) : \A k \in 1..Len(means) : means[k] <= m

EarliestHighest(means) ==
    CHOOSE p \in 1..Len(means) :
        /\ means[p] = HighestMean(means)
        /\ \A q \in 1..(p - 1) : means[q] # HighestMean(means)

\* C6: for every subgraph with at least one candidate the reported best index
\* is the 1-based position of the candidate with the highest mean, the
\* earliest such position on a tie.
C6_BestIsEarliestHighest ==
    (summary.called /\ summary.err = "none") =>
        \A k \in 1..Len(summary.rows) :
            Len(summary.rows[k].means) >= 1 =>
                summary.rows[k].best_candidate
                    = EarliestHighest(summary.rows[k].means)

(***************************************************************************)
(* Properties of the logger's placement and of the copied operations       *)
(***************************************************************************)
\* the position in the unit's graph of the reference placeholder
ReferencePlaceholders(g) ==
    { p \in Placeholders(g) : g[p].name = <<"SHADOW_PH_NAME">> }

\* one logger was added, successfully, to a unit that had exactly one input
OneLoggerOnSingleInputUnit ==
    /\ Len(logger_calls) = 1
    /\ logger_calls[1].err = "none"
    /\ logger_calls[1].placeholders_before = 1

\* C11: after _add_logger_to_subgraph_wrapper on a unit with a single input
\* placeholder, the reference placeholder is the unit's second input: it
\* comes after the original input placeholder and immediately before the
\* first computational node.
C11_ReferencePlaceholderIsSecond ==
    OneLoggerOnSingleInputUnit =>
        /\ ReferencePlaceholders(gm.g) = {2}
        /\ Placeholders(gm.g) = {1, 2}
        /\ gm.g[3].op \in {"call_module", "call_function", "call_method"}

\* the largest candidate count over the subgraphs of results_comparison
RECURSIVE LargestCandidateCount(_)
LargestCandidateCount(rc) ==
    IF rc = <<>> THEN 0
    ELSE Max(Len(Head(rc).val.candidates), LargestCandidateCount(Tail(rc)))

\* C12: in print_n_shadows_summary the number of candidate column headers
\* equals the largest candidate count over all subgraphs of the input, and
\* the headers are the strings 1, 2, ... up to that count.
C12_HeadersPerCandidate ==
    (summary.called /\ summary.err = "none") =>
        /\ Len(summary.candidate_idx_headers) = LargestCandidateCount(comparison)
        /\ \A x \in 1..Len(summary.candidate_idx_headers) :
              summary.candidate_idx_headers[x] = IntToStr(x)

\* the positions in the unit's graph of the copied operations, in node order
CopiedOps(g) ==
    { p \in 1..Len(g) : g[p].op \in {"call_module", "call_function", "call_method"} }

\* the position of the k-th copied operation
KthCopiedOp(g, k) ==
    CHOOSE p \in CopiedOps(g) : Cardinality({ q \in CopiedOps(g) : q <= p }) = k

\* s starts with prefix
StartsWith(s, prefix) ==
    Len(s) >= Len(prefix) /\ SubSeq(s, 1, Len(prefix)) = prefix

\* copy is the copy of the argument orig: a Node is replaced by an input
\* placeholder of the unit named after it, anything else is kept
IsCopyOfScalar(g, copy, orig) ==
    IF orig.k = "node"
    THEN /\ copy.k = "node"
         /\ \E p \in Placeholders(g) :
               g[p].id = copy.ref /\ StartsWith(g[p].name, orig.n \o <<"_">>)
    ELSE copy = orig

IsCopyOfArg(g, copy, orig) ==
    IF orig.k = "list"
    THEN /\ copy.k = "list"
         /\ Len(copy.items) = Len(orig.items)
         /\ \A e \in 1..Len(orig.items) :
               IsCopyOfScalar(g, copy.items[e], orig.items[e])
    ELSE IsCopyOfScalar(g, copy, orig)

IsCopyOfKwargs(g, copy, orig) ==
    /\ Len(copy) = Len(orig)
    /\ \A e \in 1..Len(orig) :
          /\ copy[e].key = orig[e].key
          /\ IsCopyOfArg(g, copy[e].val, orig[e].val)

\* C13: in the unit returned by create_submodule_from_subgraph the k-th
\* copied operation carries the keyword arguments of the k-th node of the
\* original chain, with Node references replaced by the unit's own nodes; an
\* operation after the first is copied with its own keyword arguments.
C13_CopiesCarryOwnKwargs ==
    UnitReturned =>
        /\ Cardinality(CopiedOps(gm.g)) = host.last_node
        /\ \A k \in 1..host.last_node :
              IsCopyOfKwargs(gm.g, gm.g[KthCopiedOp(gm.g, k)].kwargs,
                             host.nodes[k].kwargs)

====
